---- MODULE Spec2Model ----
(***************************************************************************)
(* Model of src/linux/network.rs (sysinfo, Linux network interfaces).      *)
(*                                                                         *)
(* The program state is the registry Networks.interfaces: a map from       *)
(* interface name to NetworkData (six counters, their six old values and   *)
(* the `updated` flag).  The environment is the sysfs tree under           *)
(* /sys/class/net/: whether read_dir succeeds on it, the entries it lists  *)
(* and the bytes of the six counter files under <entry>/statistics.        *)
(*                                                                         *)
(* Machine words: the counters are u64 in the source.  TLC's integers are  *)
(* 32 bits wide, so the word is WordBits wide here and every file content  *)
(* that is meant to exceed the word is 30 digits long, which exceeds any   *)
(* word up to 64 bits.  Arithmetic overflow in `read` is build-dependent   *)
(* in Rust (panic with overflow checks, wrap-around without): the build is *)
(* chosen nondeterministically in Init (overflow_checks).                  *)
(***************************************************************************)
EXTENDS Integers, Sequences, FiniteSets, TLC

VARIABLES
    interfaces,       \* Networks.interfaces : name -> NetworkData
    sysfs,            \* the tree under /sys/class/net/
    overflow_checks,  \* TRUE: integer overflow panics; FALSE: it wraps
    panicked,         \* TRUE once a refresh has unwound with a panic
    lastOp,           \* the operation that produced this state
    listOnly,         \* no counter refresh has been issued so far
    before,           \* the registered names when the last refresh was called
                      \* (empty once the environment has moved on)
    repeated,         \* the last two operations were list refreshes
    hist              \* per name that decodes, what list refreshes have seen of
                      \* it: "evicted" (removed by a list refresh and not
                      \* registered since), "rediscovered" (evicted, and inserted
                      \* by the list refresh that just returned), "vanished"
                      \* (registered, and gone from the tree since the last list
                      \* refresh that listed it), "reappeared" (vanished, and
                      \* back in the tree before any list refresh listed the
                      \* directory), "kept" (reappeared, and re-read by the list
                      \* refresh that just returned), or "none"

vars == <<interfaces, sysfs, overflow_checks, panicked, lastOp, listOnly, before,
          repeated, hist>>

----------------------------------------------------------------------------
(* Bounds and program constants *)

WordBits == 16

BufLen == 30

Modulus == 2 ^ WordBits

MaxWord == Modulus - 1

----------------------------------------------------------------------------
(* Bytes and files *)

Rep(b, n) == [i \in 1..n |-> b]

Fields == <<"rx_bytes", "tx_bytes", "rx_packets", "tx_packets", "rx_errors", "tx_errors">>

FieldSet == {Fields[i] : i \in 1..Len(Fields)}

OldOf == [rx_bytes |-> "old_rx_bytes", tx_bytes |-> "old_tx_bytes",
          rx_packets |-> "old_rx_packets", tx_packets |-> "old_tx_packets",
          rx_errors |-> "old_rx_errors", tx_errors |-> "old_tx_errors"]

\* File::open fails (absent file or directory, permission denied)
Missing == [kind |-> "missing", bytes |-> <<>>]

\* File::open succeeds and f.read fails
Unreadable == [kind |-> "unreadable", bytes |-> <<>>]

Data(bs) == [kind |-> "data", bytes |-> bs]

\* "40\n"
B40 == <<52, 48, 10>>

\* "100\n"
B100 == <<49, 48, 48, 10>>

\* "12345\n"
B12345 == <<49, 50, 51, 52, 53, 10>>

\* "7" (no trailing newline)
B7 == <<55>>

\* "x1": the first byte is not a digit
BX1 == <<120, 49>>

\* 29 times "0", then "12": 31 bytes, one more than the read buffer holds
BLong == Rep(48, 29) \o <<49, 50>>

\* 30 times "9": a decimal value above any word of at most 64 bits
BHuge == Rep(57, 30)

\* The statistics directories the environment can present for an entry.
Statistics ==
    [NoStats |-> [f \in FieldSet |-> Missing],
     Low     |-> [rx_bytes |-> Data(B40), tx_bytes |-> Data(B7),
                  rx_packets |-> Data(BLong), tx_packets |-> Data(<<>>),
                  rx_errors |-> Data(BX1), tx_errors |-> Unreadable],
     High    |-> [rx_bytes |-> Data(B100), tx_bytes |-> Data(B12345),
                  rx_packets |-> Data(B7), tx_packets |-> Data(B7),
                  rx_errors |-> Data(B100), tx_errors |-> Data(B40)],
     Huge    |-> [rx_bytes |-> Data(B100), tx_bytes |-> Data(B12345),
                  rx_packets |-> Data(BHuge), tx_packets |-> Data(B7),
                  rx_errors |-> Data(B100), tx_errors |-> Data(B40)]]

\* The statistics directories each entry takes.  The entry whose name does
\* not decode is never read, so its content does not matter.
Profiles ==
    [itf1 |-> {"Low", "High"}, itf2 |-> {"NoStats", "Huge"}, bad |-> {"NoStats"}]

\* Directory entries: two with names that decode, one whose OsString name
\* is not valid UTF-8.
Entries == {"itf1", "itf2", "bad"}

\* entry.file_name().into_string()
IntoStringOk(e) == e # "bad"

\* parent.join(path) for parent = <root>/<name>/statistics
Join(tree, name, path) ==
    IF name \in DOMAIN tree.dir THEN Statistics[tree.dir[name]][path] ELSE Missing

----------------------------------------------------------------------------
(* read: lines 38-53 *)

Min(a, b) == IF a < b THEN a ELSE b

\* Mutant of ReadLoop: the loop is bounded by the buffer length only, not by
\* the number of bytes read.
RECURSIVE ReadLoop_ignores_size(_, _, _, _, _)
ReadLoop_ignores_size(data, size, i, ret, checked) ==
    IF i < Len(data) /\ data[i + 1] >= 48 /\ data[i + 1] <= 57
    THEN LET d == data[i + 1] - 48
             m == ret * 10
         IN IF (m > MaxWord \/ m + d > MaxWord) /\ checked
            THEN [ret |-> 0, panic |-> TRUE]
            ELSE ReadLoop_ignores_size(data, size, i + 1,
                                       ((m % Modulus) + d) % Modulus, checked)
    ELSE [ret |-> ret, panic |-> FALSE]

\* the while loop of `read`; i is 0-based as in the source.  `ret *= 10` and
\* `ret += digit` panic on overflow when checked, and wrap otherwise.
RECURSIVE ReadLoop(_, _, _, _, _)
ReadLoop(data, size, i, ret, checked) ==
    IF i < size /\ i < Len(data) /\ data[i + 1] >= 48 /\ data[i + 1] <= 57
    THEN LET d == data[i + 1] - 48
             m == ret * 10
         IN IF (m > MaxWord \/ m + d > MaxWord) /\ checked
            THEN [ret |-> 0, panic |-> TRUE]
            ELSE ReadLoop(data, size, i + 1, ((m % Modulus) + d) % Modulus, checked)
    ELSE [ret |-> ret, panic |-> FALSE]

\* f.read(data): fills the front of the buffer, whose length stays the same
FRead(bytes, data) ==
    [i \in 1..Len(data) |-> IF i <= Len(bytes) THEN bytes[i] ELSE data[i]]

\* read(parent, path, data) with file = the file at parent.join(path).
\* Returns the value, the buffer as left behind, and whether it panicked.
read(file, data, checked) ==
    IF file.kind = "data"
    THEN LET size == Min(Len(file.bytes), Len(data))
             buf == FRead(file.bytes, data)
             r == ReadLoop(buf, size, 0, 0, checked)
         IN [ret |-> r.ret, data |-> buf, panic |-> r.panic]
    ELSE [ret |-> 0, data |-> data, panic |-> FALSE]

\* vec![0; 30]
NewBuffer == Rep(0, BufLen)

----------------------------------------------------------------------------
(* NetworkData and the rotation macro *)

\* Mutant of old_and_new: the new value is stored before the old one is saved.
old_and_new_store_first(ty, name, value) ==
    [ty EXCEPT ![name] = value, ![OldOf[name]] = value]

\* old_and_new!(ty, name, old [, path]): lines 26-36
old_and_new(ty, name, value) ==
    [ty EXCEPT ![OldOf[name]] = ty[name], ![name] = value]

\* Mutant of NewNetworkData: the old values start at 0.
NewNetworkData_zero_old(v) ==
    [rx_bytes |-> v.rx_bytes, old_rx_bytes |-> 0,
     tx_bytes |-> v.tx_bytes, old_tx_bytes |-> 0,
     rx_packets |-> v.rx_packets, old_rx_packets |-> 0,
     tx_packets |-> v.tx_packets, old_tx_packets |-> 0,
     rx_errors |-> v.rx_errors, old_rx_errors |-> 0,
     tx_errors |-> v.tx_errors, old_tx_errors |-> 0,
     updated |-> TRUE]

\* the struct literal of the Vacant branch: lines 102-120
NewNetworkData(v) ==
    [rx_bytes |-> v.rx_bytes, old_rx_bytes |-> v.rx_bytes,
     tx_bytes |-> v.tx_bytes, old_tx_bytes |-> v.tx_bytes,
     rx_packets |-> v.rx_packets, old_rx_packets |-> v.rx_packets,
     tx_packets |-> v.tx_packets, old_tx_packets |-> v.tx_packets,
     rx_errors |-> v.rx_errors, old_rx_errors |-> v.rx_errors,
     tx_errors |-> v.tx_errors, old_tx_errors |-> v.tx_errors,
     updated |-> TRUE]

\* the Occupied branch: lines 89-100
RECURSIVE RotateAll(_, _, _)
RotateAll(interface, v, k) ==
    IF k > Len(Fields) THEN interface
    ELSE RotateAll(old_and_new(interface, Fields[k], v[Fields[k]]), v, k + 1)

\* Mutant of Occupied: the record is marked and its counters are left alone.
Occupied_mark_only(interface, v) == [interface EXCEPT !.updated = TRUE]

\* Mutant of Occupied: the value read goes to the old field and the current
\* value is kept.
Occupied_new_into_old(interface, v) ==
    [n \in DOMAIN interface |->
        IF n = "updated" THEN TRUE
        ELSE IF n \in FieldSet THEN interface[n]
        ELSE v[CHOOSE f \in FieldSet : OldOf[f] = n]]

\* Mutant of Occupied: a record whose six values read are the ones it holds
\* is marked and not rotated.
Occupied_skip_unchanged(interface, v) ==
    IF \A f \in FieldSet : interface[f] = v[f]
    THEN [interface EXCEPT !.updated = TRUE]
    ELSE [RotateAll(interface, v, 1) EXCEPT !.updated = TRUE]

\* Mutant of Occupied: a listed name that is registered gets a fresh record,
\* as a name that is not registered does.
Occupied_as_vacant(interface, v) == NewNetworkData(v)

Occupied(interface, v) == [RotateAll(interface, v, 1) EXCEPT !.updated = TRUE]

\* the six reads of one directory entry, in source order: lines 80-85.
\* acc = [vals, data, panic]
RECURSIVE ReadSix(_, _, _, _, _)
ReadSix(tree, name, acc, k, checked) ==
    IF k > Len(Fields) \/ acc.panic THEN acc
    ELSE LET r == read(Join(tree, name, Fields[k]), acc.data, checked)
         IN ReadSix(tree, name,
                    [vals |-> [acc.vals EXCEPT ![Fields[k]] = r.ret],
                     data |-> r.data, panic |-> r.panic],
                    k + 1, checked)

ZeroVals == [f \in FieldSet |-> 0]

----------------------------------------------------------------------------
(* refresh_networks_list_from_sysfs: lines 63-128 *)

\* Mutant of ScanEntry: an entry with a counter file that cannot be opened
\* is skipped.
ScanEntry_skip_unreadable(st, entry, tree, checked) ==
    IF st.panic \/ ~IntoStringOk(entry)
       \/ \E f \in FieldSet : Join(tree, entry, f).kind = "missing"
    THEN st
    ELSE LET r == ReadSix(tree, entry, [vals |-> ZeroVals, data |-> st.data,
                                        panic |-> FALSE], 1, checked)
         IN IF r.panic
            THEN [st EXCEPT !.data = r.data, !.panic = TRUE]
            ELSE [interfaces |->
                    IF entry \in DOMAIN st.interfaces
                    THEN [st.interfaces EXCEPT ![entry] = Occupied(@, r.vals)]
                    ELSE (entry :> NewNetworkData(r.vals)) @@ st.interfaces,
                  data |-> r.data, panic |-> FALSE]

\* the body of `for entry in dir.flatten()`: lines 74-123.
\* st = [interfaces, data, panic]
ScanEntry(st, entry, tree, checked) ==
    IF st.panic \/ ~IntoStringOk(entry) THEN st
    ELSE LET r == ReadSix(tree, entry, [vals |-> ZeroVals, data |-> st.data,
                                        panic |-> FALSE], 1, checked)
         IN IF r.panic
            THEN [st EXCEPT !.data = r.data, !.panic = TRUE]
            ELSE [interfaces |->
                    IF entry \in DOMAIN st.interfaces
                    THEN [st.interfaces EXCEPT ![entry] = Occupied(@, r.vals)]
                    ELSE (entry :> NewNetworkData(r.vals)) @@ st.interfaces,
                  data |-> r.data, panic |-> FALSE]

\* Mutant of ScanDir: an entry whose name does not decode ends the scan.
RECURSIVE ScanDir_break_on_undecodable(_, _, _, _, _)
ScanDir_break_on_undecodable(st, order, k, tree, checked) ==
    IF k > Len(order) \/ ~IntoStringOk(order[k]) THEN st
    ELSE ScanDir_break_on_undecodable(ScanEntry(st, order[k], tree, checked),
                                      order, k + 1, tree, checked)

\* for entry in dir.flatten(): line 74
RECURSIVE ScanDir(_, _, _, _, _)
ScanDir(st, order, k, tree, checked) ==
    IF k > Len(order) THEN st
    ELSE ScanDir(ScanEntry(st, order[k], tree, checked), order, k + 1, tree, checked)

\* Mutant of ClearUpdated: the flags are left as the last pass set them.
ClearUpdated_flags_kept(itfs) == itfs

\* lines 70-72
ClearUpdated(itfs) == [n \in DOMAIN itfs |-> [itfs[n] EXCEPT !.updated = FALSE]]

\* Mutant of Retain: nothing is removed.
Retain_nothing_removed(itfs) == itfs

\* interfaces.retain(|_n, d| d.updated): line 126
Retain(itfs) == [n \in {m \in DOMAIN itfs : itfs[m].updated} |-> itfs[n]]

\* Mutant of refresh_networks_list_from_sysfs: a directory that cannot be
\* listed is treated as an empty one.
refresh_networks_list_unlistable_as_empty(itfs, tree, order, checked) ==
    LET st == ScanDir([interfaces |-> ClearUpdated(itfs), data |-> NewBuffer,
                       panic |-> FALSE],
                      IF tree.listable THEN order ELSE <<>>, 1, tree, checked)
    IN IF st.panic
       THEN [interfaces |-> st.interfaces, panic |-> TRUE]
       ELSE [interfaces |-> Retain(st.interfaces), panic |-> FALSE]

\* Mutant of refresh_networks_list_from_sysfs: the flags are cleared before
\* the directory is listed.
refresh_networks_list_clear_first(itfs, tree, order, checked) ==
    IF tree.listable
    THEN LET st == ScanDir([interfaces |-> ClearUpdated(itfs), data |-> NewBuffer,
                            panic |-> FALSE], order, 1, tree, checked)
         IN IF st.panic
            THEN [interfaces |-> st.interfaces, panic |-> TRUE]
            ELSE [interfaces |-> Retain(st.interfaces), panic |-> FALSE]
    ELSE [interfaces |-> ClearUpdated(itfs), panic |-> FALSE]

\* `order` is the order in which read_dir yields the entries.
\* Returns the registry as the call leaves it and whether it panicked.
refresh_networks_list_from_sysfs(itfs, tree, order, checked) ==
    IF tree.listable
    THEN LET st == ScanDir([interfaces |-> ClearUpdated(itfs), data |-> NewBuffer,
                            panic |-> FALSE], order, 1, tree, checked)
         IN IF st.panic
            THEN [interfaces |-> st.interfaces, panic |-> TRUE]
            ELSE [interfaces |-> Retain(st.interfaces), panic |-> FALSE]
    ELSE [interfaces |-> itfs, panic |-> FALSE]

----------------------------------------------------------------------------
(* NetworkData::update and Networks::refresh: lines 135-141, 185-226 *)

\* Mutant of update: tx_bytes is read from the rx_bytes file.
RECURSIVE update_tx_from_rx(_, _, _, _, _)
update_tx_from_rx(st, path, tree, k, checked) ==
    IF k > Len(Fields) \/ st.panic THEN st
    ELSE LET r == read(Join(tree, path, IF k = 2 THEN Fields[1] ELSE Fields[k]),
                       st.data, checked)
         IN update_tx_from_rx([self |-> IF r.panic THEN st.self
                                        ELSE old_and_new(st.self, Fields[k], r.ret),
                               data |-> r.data, panic |-> r.panic],
                              path, tree, k + 1, checked)

\* st = [self, data, panic]; each field is read and then rotated
RECURSIVE update(_, _, _, _, _)
update(st, path, tree, k, checked) ==
    IF k > Len(Fields) \/ st.panic THEN st
    ELSE LET r == read(Join(tree, path, Fields[k]), st.data, checked)
         IN update([self |-> IF r.panic THEN st.self
                             ELSE old_and_new(st.self, Fields[k], r.ret),
                    data |-> r.data, panic |-> r.panic],
                   path, tree, k + 1, checked)

\* st = [interfaces, data, panic]; `order` is the HashMap's iteration order
RECURSIVE RefreshLoop(_, _, _, _, _)
RefreshLoop(st, order, k, tree, checked) ==
    IF k > Len(order) \/ st.panic THEN st
    ELSE LET u == update([self |-> st.interfaces[order[k]], data |-> st.data,
                          panic |-> FALSE], order[k], tree, 1, checked)
         IN RefreshLoop([interfaces |-> [st.interfaces EXCEPT ![order[k]] = u.self],
                         data |-> u.data, panic |-> u.panic],
                        order, k + 1, tree, checked)

\* Mutant of refresh: the records of interfaces gone from the tree are dropped.
refresh_dropping_gone(itfs, tree, order, checked) ==
    LET st == RefreshLoop([interfaces |-> itfs, data |-> NewBuffer, panic |-> FALSE],
                          order, 1, tree, checked)
    IN [interfaces |-> [n \in DOMAIN st.interfaces \cap DOMAIN tree.dir |->
                            st.interfaces[n]],
        panic |-> st.panic]

refresh(itfs, tree, order, checked) ==
    LET st == RefreshLoop([interfaces |-> itfs, data |-> NewBuffer, panic |-> FALSE],
                          order, 1, tree, checked)
    IN [interfaces |-> st.interfaces, panic |-> st.panic]

----------------------------------------------------------------------------
(* impl NetworkExt for NetworkData: lines 228-276 *)

\* u64::saturating_sub
saturating_sub(a, b) == LET d == a - b IN IF d < 0 THEN 0 ELSE d

\* Mutant of get_received: a wrapping subtraction.
get_received_wrapping(self) == (self.rx_bytes - self.old_rx_bytes) % Modulus

\* Mutant of get_received: no delta is reported while the old value is 0.
get_received_zero_without_old(self) ==
    IF self.old_rx_bytes = 0 THEN 0
    ELSE saturating_sub(self.rx_bytes, self.old_rx_bytes)

get_received(self) == saturating_sub(self.rx_bytes, self.old_rx_bytes)

get_total_received(self) == self.rx_bytes

get_transmitted(self) == saturating_sub(self.tx_bytes, self.old_tx_bytes)

get_total_transmitted(self) == self.tx_bytes

get_packets_received(self) == saturating_sub(self.rx_packets, self.old_rx_packets)

get_total_packets_received(self) == self.rx_packets

get_packets_transmitted(self) == saturating_sub(self.tx_packets, self.old_tx_packets)

get_total_packets_transmitted(self) == self.tx_packets

get_errors_on_received(self) == saturating_sub(self.rx_errors, self.old_rx_errors)

get_total_errors_on_received(self) == self.rx_errors

get_errors_on_transmitted(self) == saturating_sub(self.tx_errors, self.old_tx_errors)

get_total_errors_on_transmitted(self) == self.tx_errors

\* the delta and the total accessor of each field
Delta(self) ==
    [rx_bytes |-> get_received(self), tx_bytes |-> get_transmitted(self),
     rx_packets |-> get_packets_received(self),
     tx_packets |-> get_packets_transmitted(self),
     rx_errors |-> get_errors_on_received(self),
     tx_errors |-> get_errors_on_transmitted(self)]

Total(self) ==
    [rx_bytes |-> get_total_received(self), tx_bytes |-> get_total_transmitted(self),
     rx_packets |-> get_total_packets_received(self),
     tx_packets |-> get_total_packets_transmitted(self),
     rx_errors |-> get_total_errors_on_received(self),
     tx_errors |-> get_total_errors_on_transmitted(self)]

----------------------------------------------------------------------------
(* The state machine *)

\* all enumeration orders of a finite set
Orders(S) ==
    {s \in [1..Cardinality(S) -> S] : \A i, j \in 1..Cardinality(S) : s[i] = s[j] => i = j}

\* what one read of each counter file of `name` returns now (wrapping build)
Reading(tree, name) ==
    [f \in FieldSet |-> read(Join(tree, name, f), NewBuffer, FALSE).ret]

\* the names of the entries that decode
Names == {e \in Entries : IntoStringOk(e)}

\* the marks of the last list refresh are dropped by the next step
Settle(h) ==
    [n \in Names |-> IF h[n] \in {"rediscovered", "kept"} THEN "none" ELSE h[n]]

\* what a list refresh that listed the directory and returned `new` has seen
Seen(h, old, new) ==
    [n \in Names |->
        IF n \in DOMAIN old /\ n \notin DOMAIN new THEN "evicted"
        ELSE IF n \notin DOMAIN old /\ n \in DOMAIN new
        THEN (IF h[n] = "evicted" THEN "rediscovered" ELSE "none")
        ELSE IF n \in DOMAIN old /\ n \in DOMAIN new
        THEN (IF h[n] = "reappeared" THEN "kept" ELSE "none")
        ELSE Settle(h)[n]]

\* Networks::new(): an empty registry; the tree starts empty and listable
Init ==
    /\ interfaces = << >>
    /\ sysfs = [listable |-> TRUE, dir |-> << >>]
    /\ overflow_checks \in BOOLEAN
    /\ panicked = FALSE
    /\ lastOp = "new"
    /\ listOnly = TRUE
    /\ before = {}
    /\ repeated = FALSE
    /\ hist = [n \in Names |-> "none"]

\* Networks::refresh_networks_list: lines 143-145
RefreshNetworksList ==
    /\ ~panicked
    /\ \E order \in Orders(DOMAIN sysfs.dir) :
         LET r == refresh_networks_list_from_sysfs(interfaces, sysfs, order,
                                                   overflow_checks)
         IN /\ interfaces' = r.interfaces
            /\ panicked' = r.panic
            /\ hist' = IF sysfs.listable /\ ~r.panic
                       THEN Seen(hist, interfaces, r.interfaces)
                       ELSE Settle(hist)
    /\ lastOp' = "list"
    /\ repeated' = (lastOp = "list")
    /\ before' = DOMAIN interfaces
    /\ UNCHANGED <<sysfs, overflow_checks, listOnly>>

\* Networks::refresh: lines 135-141
Refresh ==
    /\ ~panicked
    /\ \E order \in Orders(DOMAIN interfaces) :
         LET r == refresh(interfaces, sysfs, order, overflow_checks)
         IN /\ interfaces' = r.interfaces
            /\ panicked' = r.panic
    /\ lastOp' = "refresh"
    /\ hist' = Settle(hist)
    /\ repeated' = FALSE
    /\ before' = DOMAIN interfaces
    /\ listOnly' = FALSE
    /\ UNCHANGED <<sysfs, overflow_checks>>

\* The environment: an interface appears
AddEntry ==
    /\ ~panicked
    /\ \E e \in Entries \ DOMAIN sysfs.dir : \E p \in Profiles[e] :
         /\ sysfs' = [sysfs EXCEPT !.dir = (e :> p) @@ @]
         /\ hist' = [n \in Names |->
                        IF n = e /\ hist[n] = "vanished" THEN "reappeared"
                        ELSE Settle(hist)[n]]
    /\ lastOp' = "env"
    /\ before' = {}
    /\ repeated' = FALSE
    /\ UNCHANGED <<interfaces, overflow_checks, panicked, listOnly>>

\* The environment: an interface disappears
RemoveEntry ==
    /\ ~panicked
    /\ \E e \in DOMAIN sysfs.dir :
         /\ sysfs' = [sysfs EXCEPT !.dir = [x \in DOMAIN @ \ {e} |-> @[x]]]
         /\ hist' = [n \in Names |->
                        IF n = e /\ n \in DOMAIN interfaces THEN "vanished"
                        ELSE Settle(hist)[n]]
    /\ lastOp' = "env"
    /\ before' = {}
    /\ repeated' = FALSE
    /\ UNCHANGED <<interfaces, overflow_checks, panicked, listOnly>>

\* The environment: the counter files of an interface change
WriteCounters ==
    /\ ~panicked
    /\ \E e \in DOMAIN sysfs.dir : \E p \in Profiles[e] :
         /\ p # sysfs.dir[e]
         /\ sysfs' = [sysfs EXCEPT !.dir[e] = p]
    /\ hist' = Settle(hist)
    /\ lastOp' = "env"
    /\ before' = {}
    /\ repeated' = FALSE
    /\ UNCHANGED <<interfaces, overflow_checks, panicked, listOnly>>

\* The environment: the root directory becomes unlistable, or listable again
SetListable ==
    /\ ~panicked
    /\ sysfs' = [sysfs EXCEPT !.listable = ~@]
    /\ hist' = Settle(hist)
    /\ lastOp' = "env"
    /\ before' = {}
    /\ repeated' = FALSE
    /\ UNCHANGED <<interfaces, overflow_checks, panicked, listOnly>>

Next ==
    \/ RefreshNetworksList
    \/ Refresh
    \/ AddEntry
    \/ RemoveEntry
    \/ WriteCounters
    \/ SetListable

Spec == Init /\ [][Next]_vars

----------------------------------------------------------------------------
(* Vocabulary of the properties *)

\* the names a listing of the tree yields that decode to text
ListedNames(tree) == {e \in DOMAIN tree.dir : e # "bad"}

\* what one read of each counter file of `name` returns, on a buffer of its
\* own, when the arithmetic wraps
ReadingOf(tree, name) ==
    [f \in FieldSet |-> read(Join(tree, name, f), NewBuffer, FALSE).ret]

\* the step is a list refresh that listed the directory and returned
ListStep == lastOp' = "list" /\ sysfs.listable /\ ~panicked'

\* the step is a counter refresh that returned
CounterStep == lastOp' = "refresh" /\ ~panicked'

\* the state is the one a list refresh that listed the directory returned in
AfterList == lastOp = "list" /\ sysfs.listable /\ ~panicked

\* the names the last refresh found registered and left registered
Reread == before \cap DOMAIN interfaces

IsDigit(b) == b >= 48 /\ b <= 57

\* the bytes one read of the file returns: at most BufLen of them
BytesRead(file) ==
    IF file.kind = "data"
    THEN SubSeq(file.bytes, 1, IF Len(file.bytes) < BufLen THEN Len(file.bytes) ELSE BufLen)
    ELSE <<>>

\* the maximal run of digits at the start of bs
DigitRun(bs) ==
    LET k == CHOOSE j \in 0..Len(bs) :
                 /\ \A i \in 1..j : IsDigit(bs[i])
                 /\ (j = Len(bs) \/ ~IsDigit(bs[j + 1]))
    IN SubSeq(bs, 1, k)

\* a run of digits without its leading zeros
RECURSIVE StripZeros(_)
StripZeros(ds) == IF ds # <<>> /\ ds[1] = 48 THEN StripZeros(Tail(ds)) ELSE ds

\* the decimal digits of a natural number, none for 0
RECURSIVE ToDigits(_)
ToDigits(n) == IF n = 0 THEN <<>> ELSE Append(ToDigits(n \div 10), 48 + (n % 10))

----------------------------------------------------------------------------
(* C1 *)

\* C1: after a list refresh that could list the directory and returned, the
\* registered names are exactly the listed names that decode: new names are
\* added, names no longer listed are removed, undecodable entries are skipped.
C1_ExactMembership ==
    AfterList => DOMAIN interfaces = ListedNames(sysfs)

\* a list refresh that added itf2, removed itf1 and skipped the undecodable entry
C1_Witness ==
    /\ AfterList
    /\ before = {"itf1"}
    /\ DOMAIN sysfs.dir = {"itf2", "bad"}
    /\ DOMAIN interfaces = {"itf2"}

----------------------------------------------------------------------------
(* C2 *)

\* C2: a list refresh whose directory cannot be listed leaves the registry as
\* it was (same names, same twelve values and same flag per record) and
\* reports no error.
C2_UnlistableIsNoOp ==
    [][(lastOp' = "list" /\ ~sysfs.listable) => (interfaces' = interfaces /\ ~panicked')]_vars

\* an unlistable list refresh over a registry holding a record of an interface
\* that is gone from the tree
C2_Witness ==
    /\ lastOp = "list"
    /\ ~sysfs.listable
    /\ "itf1" \in DOMAIN interfaces
    /\ "itf1" \notin DOMAIN sysfs.dir
    /\ interfaces["itf1"].rx_bytes = 100
    /\ interfaces["itf1"].old_rx_bytes = 40

----------------------------------------------------------------------------
(* C3 *)

\* C3: a counter refresh never changes which names are registered, whatever
\* the tree holds.
C3_RefreshKeepsMembership ==
    [][lastOp' = "refresh" => DOMAIN interfaces' = DOMAIN interfaces]_vars

\* a counter refresh with itf1 registered and gone from the tree, and itf2 in
\* the tree and not registered
C3_Witness ==
    /\ lastOp = "refresh"
    /\ ~panicked
    /\ DOMAIN interfaces = {"itf1"}
    /\ DOMAIN sysfs.dir = {"itf2"}

----------------------------------------------------------------------------
(* C4 *)

\* C4: a record that a list refresh inserts has, for each of the six fields,
\* old = current = the value just read, so its six deltas are 0.
C4_InsertedZeroDelta ==
    [][ListStep =>
        \A n \in DOMAIN interfaces' \ DOMAIN interfaces : \A f \in FieldSet :
            /\ interfaces'[n][f] = ReadingOf(sysfs, n)[f]
            /\ interfaces'[n][OldOf[f]] = ReadingOf(sysfs, n)[f]
            /\ Delta(interfaces'[n])[f] = 0]_vars

\* itf1 was just inserted with non-zero raw values
C4_Witness ==
    /\ AfterList
    /\ "itf1" \in DOMAIN interfaces \ before
    /\ interfaces["itf1"].rx_bytes = 100
    /\ interfaces["itf1"].tx_bytes = 12345
    /\ get_received(interfaces["itf1"]) = 0

----------------------------------------------------------------------------
(* C5 *)

\* C5: each delta accessor returns current - old when current >= old and 0
\* when current < old, so it is never above current; each total accessor
\* returns current.
C5_SaturatingDelta ==
    \A n \in DOMAIN interfaces : \A f \in FieldSet :
        LET cur == interfaces[n][f]
            old == interfaces[n][OldOf[f]]
            d == Delta(interfaces[n])[f]
        IN /\ cur >= old => d + old = cur
           /\ cur < old => d = 0
           /\ d <= cur
           /\ Total(interfaces[n])[f] = cur

\* old = 100 and current = 40
C5_Witness ==
    /\ "itf1" \in DOMAIN interfaces
    /\ interfaces["itf1"].old_rx_bytes = 100
    /\ interfaces["itf1"].rx_bytes = 40
    /\ get_received(interfaces["itf1"]) = 0

----------------------------------------------------------------------------
(* C6 *)

\* C6: whenever a registered record is re-read, by a counter refresh or by a
\* list refresh that lists its name, each old value becomes the current value
\* held before the call and each current value becomes the value just read.
C6_Rotation ==
    [][(ListStep \/ CounterStep) =>
        \A n \in DOMAIN interfaces \cap DOMAIN interfaces' : \A f \in FieldSet :
            /\ interfaces'[n][OldOf[f]] = interfaces[n][f]
            /\ interfaces'[n][f] = ReadingOf(sysfs, n)[f]]_vars

\* a list refresh re-read itf1: 40 rotated into old, 100 read
C6_Witness ==
    /\ AfterList
    /\ "itf1" \in Reread
    /\ interfaces["itf1"].old_rx_bytes = 40
    /\ interfaces["itf1"].rx_bytes = 100

----------------------------------------------------------------------------
(* C7 *)

\* C7: the counter reader never aborts its caller, whatever the file holds:
\* no refresh ever unwinds with a panic.
C7_ReadIsTotal == ~panicked

----------------------------------------------------------------------------
(* C8 *)

\* C8: the value the counter reader returns is the decimal value of the
\* maximal run of digits at the start of the bytes read (0 for a missing,
\* unreadable or empty file and for a first byte that is not a digit): after
\* a list refresh, every current value has the digits of its file's run.
C8_DecimalValue ==
    AfterList =>
        \A n \in DOMAIN interfaces : \A f \in FieldSet :
            ToDigits(interfaces[n][f]) = StripZeros(DigitRun(BytesRead(Join(sysfs, n, f))))

----------------------------------------------------------------------------
(* C9 *)

\* C9 as stated: across every step, each current and each old value of a
\* record that stays registered does not decrease.
C9_Monotonic ==
    [][\A n \in DOMAIN interfaces \cap DOMAIN interfaces' : \A f \in FieldSet :
            /\ interfaces'[n][f] >= interfaces[n][f]
            /\ interfaces'[n][OldOf[f]] >= interfaces[n][OldOf[f]]]_vars

\* C9 amended: a record that stays registered changes only when it is re-read,
\* and a re-read of a field whose current value is at least its old value and
\* that reads at least its current value decreases neither and leaves current
\* at least old; so both are non-decreasing for as long as the values read do
\* not decrease.
C9_MonotonicWhileReadsGrow ==
    [][\A n \in DOMAIN interfaces \cap DOMAIN interfaces' : \A f \in FieldSet :
            IF (ListStep \/ CounterStep)
            THEN (/\ ReadingOf(sysfs, n)[f] >= interfaces[n][f]
                  /\ interfaces[n][f] >= interfaces[n][OldOf[f]])
                 => (/\ interfaces'[n][f] >= interfaces[n][f]
                     /\ interfaces'[n][OldOf[f]] >= interfaces[n][OldOf[f]]
                     /\ interfaces'[n][f] >= interfaces'[n][OldOf[f]])
            ELSE panicked' \/ interfaces'[n] = interfaces[n]]_vars

\* a counter refresh re-read itf1 with growing values: 7 then 12345
C9_Witness ==
    /\ lastOp = "refresh"
    /\ ~panicked
    /\ "itf1" \in Reread
    /\ interfaces["itf1"].old_tx_bytes = 7
    /\ interfaces["itf1"].tx_bytes = 12345
    /\ interfaces["itf1"].old_rx_bytes = 40
    /\ interfaces["itf1"].rx_bytes = 100

----------------------------------------------------------------------------
(* C10 *)

\* C10 as stated: while only list refreshes have been issued, the current and
\* old values of a record that stays registered never change.
C10_ListOnlyFrozen ==
    [][listOnly' =>
        \A n \in DOMAIN interfaces \cap DOMAIN interfaces' : \A f \in FieldSet :
            /\ interfaces'[n][f] = interfaces[n][f]
            /\ interfaces'[n][OldOf[f]] = interfaces[n][OldOf[f]]]_vars

\* C10 amended: while only list refreshes have been issued, a record has zero
\* deltas at discovery, and each list refresh that lists its name re-reads it:
\* after the call every current value is the value the files hold at that call.
C10_ListOnlyFollowsFiles ==
    (listOnly /\ AfterList) =>
        \A n \in DOMAIN interfaces : \A f \in FieldSet :
            /\ interfaces[n][f] = ReadingOf(sysfs, n)[f]
            /\ n \notin before => Delta(interfaces[n])[f] = 0

\* only list refreshes so far, and the last one changed the counters of itf1
C10_Witness ==
    /\ listOnly
    /\ AfterList
    /\ "itf1" \in Reread
    /\ interfaces["itf1"].rx_bytes = 100
    /\ interfaces["itf1"].old_rx_bytes = 40
    /\ get_received(interfaces["itf1"]) = 60

----------------------------------------------------------------------------
(* C11 *)

\* C11: a registered interface whose directory is gone from the tree stays
\* registered through every counter refresh, which reads its six counters as
\* 0, and through every list refresh that cannot list the directory; the
\* first list refresh that lists the directory removes it.
C11_GoneUntilListed ==
    [][\A n \in DOMAIN interfaces \ DOMAIN sysfs.dir :
            /\ CounterStep =>
                  /\ n \in DOMAIN interfaces'
                  /\ \A f \in FieldSet : interfaces'[n][f] = 0
            /\ (lastOp' = "list" /\ ~sysfs.listable) => n \in DOMAIN interfaces'
            /\ lastOp' = "env" => n \in DOMAIN interfaces'
            /\ ListStep => n \notin DOMAIN interfaces']_vars

\* itf1 is gone from the tree and still registered after two counter
\* refreshes that read 0, the directory being unlistable
C11_Witness ==
    /\ lastOp = "refresh"
    /\ ~panicked
    /\ ~sysfs.listable
    /\ "itf1" \in Reread
    /\ "itf1" \notin DOMAIN sysfs.dir
    /\ \A f \in FieldSet :
          interfaces["itf1"][f] = 0 /\ interfaces["itf1"][OldOf[f]] = 0

----------------------------------------------------------------------------
(* C12 *)

\* a counter file of the entry cannot be opened or read
ReadFails(tree, n, f) == Join(tree, n, f).kind # "data"

\* C12: in a list refresh, counter files that cannot be read neither abort the
\* scan nor keep their entry out of the registry: the call returns unless a
\* readable file overflows, every listed name is registered with 0 for each
\* counter that could not be read, and with its own values for the others.
C12_ReadFailuresDegradeToZero ==
    (lastOp = "list" /\ sysfs.listable) =>
        /\ panicked =>
              \E n \in ListedNames(sysfs) : \E f \in FieldSet :
                  Join(sysfs, n, f) = Data(BHuge)
        /\ ~panicked =>
              \A n \in ListedNames(sysfs) :
                  /\ n \in DOMAIN interfaces
                  /\ \A f \in FieldSet :
                        /\ ReadFails(sysfs, n, f) => interfaces[n][f] = 0
                        /\ ~ReadFails(sysfs, n, f) =>
                              interfaces[n][f] = ReadingOf(sysfs, n)[f]

\* itf2 has no statistics directory and itf1 has an unreadable tx_errors:
\* both are registered, itf2 with zeros and itf1 with its own values
C12_Witness ==
    /\ AfterList
    /\ DOMAIN sysfs.dir = {"itf1", "itf2"}
    /\ sysfs.dir["itf2"] = "NoStats"
    /\ sysfs.dir["itf1"] = "Low"
    /\ DOMAIN interfaces = {"itf1", "itf2"}
    /\ \A f \in FieldSet : interfaces["itf2"][f] = 0
    /\ interfaces["itf1"].rx_bytes = 40
    /\ interfaces["itf1"].tx_errors = 0

----------------------------------------------------------------------------
(* C13 *)

\* the step is the second of two list refreshes that both returned, with no
\* change to the tree in between
SecondListStep == repeated' /\ ~panicked'

\* the second call left the keys and the current values as the first did,
\* and every old value equal to its current value
SameAndSettled ==
    /\ DOMAIN interfaces' = DOMAIN interfaces
    /\ \A n \in DOMAIN interfaces' : \A f \in FieldSet :
          /\ interfaces'[n][f] = interfaces[n][f]
          /\ interfaces'[n][OldOf[f]] = interfaces'[n][f]

\* C13 as stated: after the second of two list refreshes with no change to the
\* directory or its files, the key set and the current values are those left
\* by the first, and every old value equals its current value.
C13_TwiceUnchanged ==
    [][SecondListStep => SameAndSettled]_vars

\* C13 amended: the same, for a directory that can be listed.
C13_TwiceUnchangedListable ==
    [][(SecondListStep /\ sysfs.listable) => SameAndSettled]_vars

\* the second list refresh found itf1 with old = 40 and current = 100 and left
\* it with old = current = 100
C13_Witness ==
    /\ AfterList
    /\ repeated
    /\ "itf1" \in Reread
    /\ sysfs.dir["itf1"] = "High"
    /\ interfaces["itf1"].rx_bytes = 100
    /\ interfaces["itf1"].old_rx_bytes = 100
    /\ interfaces["itf1"].tx_bytes = 12345
    /\ interfaces["itf1"].old_tx_bytes = 12345

----------------------------------------------------------------------------
(* C14 *)

\* the twelve counters of a record, without its flag
Counters(self) == [x \in DOMAIN self \ {"updated"} |-> self[x]]

\* the tree with its root listable
Listable(tree) == [tree EXCEPT !.listable = TRUE]

\* C14: for a registered interface that is present in the tree, a counter
\* refresh leaves the twelve counters that the update branch of a list refresh
\* over the same tree and the same files would leave, whatever the order in
\* which that list refresh enumerates the directory.
C14_RefreshAsListUpdate ==
    [][CounterStep =>
        \A n \in DOMAIN interfaces \cap DOMAIN sysfs.dir :
            /\ Counters(interfaces'[n]) =
                  Counters(Occupied(interfaces[n],
                                    ReadSix(sysfs, n, [vals |-> ZeroVals, data |-> NewBuffer,
                                                       panic |-> FALSE], 1, FALSE).vals))
            /\ \A order \in Orders(DOMAIN sysfs.dir) :
                  LET r == refresh_networks_list_from_sysfs(interfaces, Listable(sysfs),
                                                            order, overflow_checks)
                  IN ~r.panic => Counters(interfaces'[n]) = Counters(r.interfaces[n])]_vars

\* a counter refresh re-read itf1, present in the tree with other files than
\* at its last read
C14_Witness ==
    /\ lastOp = "refresh"
    /\ ~panicked
    /\ "itf1" \in Reread
    /\ "itf1" \in DOMAIN sysfs.dir
    /\ sysfs.dir["itf1"] = "High"
    /\ interfaces["itf1"].old_rx_packets = 1
    /\ interfaces["itf1"].rx_packets = 7
    /\ interfaces["itf1"].old_tx_errors = 0
    /\ interfaces["itf1"].tx_errors = 40

----------------------------------------------------------------------------
(* C15 *)

\* the record a list refresh leaves for a listed name, from the name's own
\* prior record and own files alone
OwnRecord(itfs, tree, n) ==
    IF n \in DOMAIN itfs
    THEN [RotateAll(itfs[n], ReadingOf(tree, n), 1) EXCEPT !.updated = TRUE]
    ELSE NewNetworkData(ReadingOf(tree, n))

\* C15: the registry a list refresh returns is the one every enumeration order
\* of the directory gives, and the registry a counter refresh returns is the
\* one every visiting order of the registered names gives; each record is a
\* function of its own name, its own prior record and its own files.
C15_OrderIndependent ==
    [][/\ ListStep =>
            /\ \A order \in Orders(DOMAIN sysfs.dir) :
                  LET r == refresh_networks_list_from_sysfs(interfaces, sysfs, order,
                                                            overflow_checks)
                  IN ~r.panic /\ r.interfaces = interfaces'
            /\ \A n \in DOMAIN interfaces' : interfaces'[n] = OwnRecord(interfaces, sysfs, n)
       /\ CounterStep =>
            /\ \A order \in Orders(DOMAIN interfaces) :
                  LET r == refresh(interfaces, sysfs, order, overflow_checks)
                  IN ~r.panic /\ r.interfaces = interfaces'
            /\ \A n \in DOMAIN interfaces' :
                  Counters(interfaces'[n]) = Counters(OwnRecord(interfaces, sysfs, n))]_vars

\* a list refresh over a directory of three entries (six enumeration orders)
\* that re-read itf1 and inserted itf2
C15_Witness ==
    /\ AfterList
    /\ DOMAIN sysfs.dir = {"itf1", "itf2", "bad"}
    /\ before = {"itf1"}
    /\ DOMAIN interfaces = {"itf1", "itf2"}
    /\ interfaces["itf1"].old_rx_bytes = 40
    /\ interfaces["itf1"].rx_bytes = 100

----------------------------------------------------------------------------
(* C16 *)

\* the counter files the tree holds
FilesOf(tree) == {Join(tree, e, f) : e \in DOMAIN tree.dir, f \in FieldSet} \cup {Missing}

\* C16: what a counter read returns depends on the bytes of that read alone,
\* not on what earlier reads left in the shared buffer: a read on the buffer
\* any other read left behind returns what it returns on a new buffer, and
\* after a refresh that returned, every current value is what a read of its
\* file on a new buffer returns.
C16_BufferLeftoversIgnored ==
    /\ \A earlier \in FilesOf(sysfs) : \A file \in FilesOf(sysfs) :
          read(file, read(earlier, NewBuffer, FALSE).data, FALSE).ret
             = read(file, NewBuffer, FALSE).ret
    /\ (AfterList \/ (lastOp = "refresh" /\ ~panicked)) =>
          \A n \in DOMAIN interfaces : \A f \in FieldSet :
              interfaces[n][f] = ReadingOf(sysfs, n)[f]

\* a counter refresh read the one-byte file "7" of itf1 right after its file
\* "12345\n", and 0 for every file of itf2 that could not be opened
C16_Witness ==
    /\ lastOp = "refresh"
    /\ ~panicked
    /\ DOMAIN interfaces = {"itf1", "itf2"}
    /\ "itf1" \in DOMAIN sysfs.dir
    /\ sysfs.dir["itf1"] = "High"
    /\ interfaces["itf1"].tx_bytes = 12345
    /\ interfaces["itf1"].rx_packets = 7
    /\ \A f \in FieldSet : interfaces["itf2"][f] = 0

----------------------------------------------------------------------------
(* C17 *)

\* C17: when a registered record holds 0 for a counter, as a failed read
\* leaves it, and the next refresh of the record reads the value v from the
\* file, the total accessor then returns v and the delta accessor returns v.
C17_WholeCounterAfterFailedRead ==
    [][(ListStep \/ CounterStep) =>
        \A n \in DOMAIN interfaces \cap DOMAIN interfaces' : \A f \in FieldSet :
            (interfaces[n][f] = 0 /\ ~ReadFails(sysfs, n, f)) =>
                /\ Total(interfaces'[n])[f] = ReadingOf(sysfs, n)[f]
                /\ Delta(interfaces'[n])[f] = ReadingOf(sysfs, n)[f]]_vars

\* itf1 was read as 0 while gone from the tree and is read as 100 now: total
\* 100 and delta 100
C17_Witness ==
    /\ lastOp = "refresh"
    /\ ~panicked
    /\ "itf1" \in Reread
    /\ interfaces["itf1"].old_rx_bytes = 0
    /\ interfaces["itf1"].rx_bytes = 100
    /\ get_total_received(interfaces["itf1"]) = 100
    /\ get_received(interfaces["itf1"]) = 100

----------------------------------------------------------------------------
(* C18 *)

\* C18: a list refresh that lists the directory and returns gives a name it
\* had evicted and now lists again a fresh record, current and previous both
\* the values just read and every delta 0, nothing of the evicted record
\* carried over; a registered name that left the tree and came back before
\* any list refresh listed the directory keeps its record, which is rotated:
\* previous takes the old current, current the value just read.
C18_RediscoveredFreshReappearedRotated ==
    [][ListStep =>
        \A n \in Names :
            /\ (hist[n] = "evicted" /\ n \in DOMAIN sysfs.dir) =>
                  /\ n \notin DOMAIN interfaces
                  /\ n \in DOMAIN interfaces'
                  /\ interfaces'[n] = NewNetworkData(ReadingOf(sysfs, n))
                  /\ \A f \in FieldSet : Delta(interfaces'[n])[f] = 0
            /\ hist[n] = "reappeared" =>
                  /\ n \in DOMAIN interfaces
                  /\ n \in DOMAIN interfaces'
                  /\ \A f \in FieldSet :
                        /\ interfaces'[n][OldOf[f]] = interfaces[n][f]
                        /\ interfaces'[n][f] = ReadingOf(sysfs, n)[f]]_vars

\* a list refresh has just returned having inserted itf2 afresh after evicting
\* it, with readings other than 0, and having rotated the record of itf1,
\* which left the tree and came back unseen with other counters
C18_Witness ==
    /\ AfterList
    /\ hist["itf2"] = "rediscovered"
    /\ hist["itf1"] = "kept"
    /\ interfaces["itf2"].rx_bytes = interfaces["itf2"].old_rx_bytes
    /\ interfaces["itf2"].rx_bytes > 0
    /\ interfaces["itf1"].old_rx_bytes = 40
    /\ interfaces["itf1"].rx_bytes = 100

(* C19 *)

\* C19 as stated: outside a running list refresh no registered record has its
\* `updated` flag set.
C19_FlagClearOutsidePass ==
    ~panicked => \A n \in DOMAIN interfaces : ~interfaces[n].updated

\* C19 amended: outside a running list refresh every registered record has
\* its `updated` flag set; the flag is clear only inside a pass, between the
\* clearing of all flags and the processing of the record's entry or its
\* removal at the end of the pass.
C19_FlagSetOutsidePass ==
    ~panicked => \A n \in DOMAIN interfaces : interfaces[n].updated

\* after a list refresh and a counter refresh, with no pass running, two
\* records are registered and flagged
C19_Witness ==
    /\ lastOp = "refresh"
    /\ ~panicked
    /\ ~listOnly
    /\ DOMAIN interfaces = {"itf1", "itf2"}
    /\ interfaces["itf1"].updated
    /\ interfaces["itf2"].updated

====
